---- MODULE Spec2Model ----
(***************************************************************************)
(* Model of backend/main.py: the album inventory service.  Every request   *)
(* handler is a sequence of steps, one per awaited database statement, so  *)
(* that concurrent requests interleave exactly where the code awaits.      *)
(* The relational store is the pair of tables albuns / vendas; statements  *)
(* run in autocommit, each one atomic on its own.                          *)
(***************************************************************************)
EXTENDS Integers, FiniteSets, Sequences, TLC

\* ------------------------------------------------------------------ bounds
MaxReqs == 2        \* requests served in one behaviour
MaxAlbuns == 2      \* largest album id a request names
MaxFalhas == 1      \* store failures injected in one behaviour
MaxQtd == 2         \* largest quantity carried by a request

Procs == {1, 2}                     \* concurrently served requests
\* (titulo, cantor) of the create requests: the first two are equal when
\* compared case-insensitively, the third is another album
Nomes == {<<"a", "x">>, <<"A", "X">>, <<"b", "x">>}
Qtds == 0..MaxQtd                   \* quantities of create / partial update
QtdsVenda == (0 - 1)..MaxQtd        \* VendaAlbum.quantidade is any int
Precos == {2}                       \* prices of created albums
Ids == 1..MaxAlbuns                 \* ids carried by requests
\* values a partial update supplies
QtdsNovas == {0, MaxQtd}
TitulosNovos == {"B"}
CantoresNovos == {"X"}
PrecosNovos == {3}

\* ------------------------------------------------------------ value shapes
\* Optional[T]: <<>> is None, <<v>> is the value v
Opt(S) == {<<>>} \cup {<<v>> : v \in S}

\* a LOWER() that folds nothing: the comparison made case-sensitive
LOWER_exato(s) == s

\* SQL LOWER() on the letters of the model's alphabet
LOWER(s) ==
  CASE s = "A" -> "a"
    [] s = "B" -> "b"
    [] s = "X" -> "x"
    [] OTHER -> s

\* SQL COALESCE($n, column)
COALESCE(o, cur) == IF o = <<>> THEN cur ELSE o[1]

NoReq == [kind |-> "none", album_id |-> 0, titulo |-> <<>>, cantor |-> <<>>,
          quantidade |-> <<>>, preco |-> <<>>]
NoResp == [status |-> 0, detail |-> "", body |-> {}]
NoPre == [albuns |-> {}, vendas |-> {}]

\* raise HTTPException(status_code, detail)
HTTPException(status, detail) ==
  [status |-> status, detail |-> detail, body |-> {}]

VARIABLES
  albuns,       \* table albuns: set of rows [id, titulo, cantor, quantidade, preco]
  vendas,       \* table vendas: set of rows [id, album_id, quantidade_vendida, valor_venda]
  album_seq,    \* next value of albuns.id
  venda_seq,    \* next value of vendas.id
  pc,           \* position of each request in its handler
  req,          \* the request each process is serving
  album,        \* the handler's local row (fetchrow result), Opt(row)
  conn,         \* the request's connection: "none", "open", "closed"
  resp,         \* the response (or raised HTTPException) of the request
  falhas,       \* store failures so far
  nreq,         \* requests started so far
  inicial,      \* history: <<id, quantidade>> of every album as it was created
  pre,          \* history: the tables as they were when the request started
  interleaved   \* history: another request took a step while this one ran

vars == <<albuns, vendas, album_seq, venda_seq, pc, req, album, conn, resp,
          falhas, nreq, inicial, pre, interleaved>>

store == <<albuns, vendas, album_seq, venda_seq, inicial>>

InFlight(p) == pc[p] \notin {"idle", "done"}

\* the state of the store after db/init.sql: both tables empty, serials reset
InitSql ==
  [albuns |-> {}, vendas |-> {}, album_seq |-> 1, venda_seq |-> 1]

\* the row INSERT INTO albuns (titulo, cantor, quantidade, preco) adds
NovoAlbum(id, titulo, cantor, quantidade, preco) ==
  [id |-> id, titulo |-> titulo, cantor |-> cantor, quantidade |-> quantidade,
   preco |-> preco]

\* the albuns tables a behaviour starts from: the empty one, and those in
\* which one earlier create request has left the album ("a", "x")
Catalogo ==
  {InitSql.albuns} \cup
  {{NovoAlbum(InitSql.album_seq, "a", "x", q, v)} : q \in Qtds, v \in Precos}

Init ==
  /\ albuns \in Catalogo
  /\ vendas = InitSql.vendas
  /\ album_seq = InitSql.album_seq + Cardinality(albuns)
  /\ venda_seq = InitSql.venda_seq
  /\ pc = [p \in Procs |-> "idle"]
  /\ req = [p \in Procs |-> NoReq]
  /\ album = [p \in Procs |-> <<>>]
  /\ conn = [p \in Procs |-> "none"]
  /\ resp = [p \in Procs |-> NoResp]
  /\ falhas = 0
  /\ nreq = 0
  /\ inicial = {<<r.id, r.quantidade>> : r \in albuns}
  /\ pre = [p \in Procs |-> NoPre]
  /\ interleaved = [p \in Procs |-> FALSE]

\* ------------------------------------------------------------ plumbing
\* history bookkeeping of a step taken by p
Mark(p) ==
  [q \in Procs |-> IF q = p THEN interleaved[q]
                   ELSE interleaved[q] \/ InFlight(q)]

\* conn = await get_database(): the request r arrives and gets its connection
get_database(p, r, first) ==
  /\ nreq < MaxReqs
  /\ nreq' = nreq + 1
  /\ req' = [req EXCEPT ![p] = r]
  /\ pc' = [pc EXCEPT ![p] = first]
  /\ conn' = [conn EXCEPT ![p] = "open"]
  /\ resp' = [resp EXCEPT ![p] = NoResp]
  /\ album' = [album EXCEPT ![p] = <<>>]
  /\ pre' = [pre EXCEPT ![p] = [albuns |-> albuns, vendas |-> vendas]]
  /\ interleaved' = [Mark(p) EXCEPT ![p] = FALSE]
  /\ UNCHANGED <<store, falhas>>

\* the SELECT without its WHERE clause: any stored row answers
fetchrow_qualquer(album_id) ==
  IF albuns # {} THEN <<CHOOSE r \in albuns : TRUE>> ELSE <<>>

\* conn.fetchrow("SELECT * FROM albuns WHERE id = $1", album_id)
fetchrow(album_id) ==
  IF \E r \in albuns : r.id = album_id
    THEN <<CHOOSE r \in albuns : r.id = album_id>>
    ELSE <<>>

\* a handler leaves its try block with response r: the finally clause is next
Leave(p, r) ==
  /\ resp' = [resp EXCEPT ![p] = r]
  /\ pc' = [pc EXCEPT ![p] = "finally"]

\* the handler is over: its response is out and its locals are gone
Return(p) ==
  /\ pc' = [pc EXCEPT ![p] = "done"]
  /\ req' = [req EXCEPT ![p] = NoReq]
  /\ album' = [album EXCEPT ![p] = <<>>]
  /\ pre' = [pre EXCEPT ![p] = NoPre]

\* finally: await conn.close()
Finally(p) ==
  /\ pc[p] = "finally"
  /\ conn' = [conn EXCEPT ![p] = "closed"]
  /\ Return(p)
  /\ interleaved' = Mark(p)
  /\ UNCHANGED <<store, resp, falhas, nreq>>

\* ------------------------------------------------------------ 1. create
StartAdicionar(p) ==
  \E n \in Nomes, q \in Qtds, v \in Precos :
    /\ ~InFlight(p)
    /\ get_database(p, [kind |-> "adicionar", album_id |-> 0, titulo |-> <<n[1]>>,
                        cantor |-> <<n[2]>>, quantidade |-> <<q>>, preco |-> <<v>>],
                    "album_existe")

\* SELECT * FROM albuns WHERE LOWER(titulo) = LOWER($1) AND LOWER(cantor) = LOWER($2)
album_existe(titulo, cantor) ==
  \E r \in albuns : /\ LOWER(r.titulo) = LOWER(titulo)
                    /\ LOWER(r.cantor) = LOWER(cantor)

\* the check of adicionar_album: a duplicate raises before the try block, so
\* no finally clause runs
AdicionarExiste(p) ==
  /\ pc[p] = "album_existe"
  /\ IF album_existe(req[p].titulo[1], req[p].cantor[1])
       THEN /\ resp' = [resp EXCEPT ![p] = HTTPException(400, "existe")]
            /\ Return(p)
       ELSE /\ pc' = [pc EXCEPT ![p] = "insert_album"]
            /\ UNCHANGED <<resp, req, album, pre>>
  /\ interleaved' = Mark(p)
  /\ UNCHANGED <<store, conn, falhas, nreq>>

\* async with conn.transaction(): INSERT INTO albuns ...
AdicionarInsert(p) ==
  /\ pc[p] = "insert_album"
  /\ albuns' = albuns \cup {NovoAlbum(album_seq, req[p].titulo[1], req[p].cantor[1],
                                      req[p].quantidade[1], req[p].preco[1])}
  /\ album_seq' = album_seq + 1
  /\ inicial' = inicial \cup {<<album_seq, req[p].quantidade[1]>>}
  /\ Leave(p, [status |-> 201, detail |-> "", body |-> {}])
  /\ interleaved' = Mark(p)
  /\ UNCHANGED <<vendas, venda_seq, req, album, conn, falhas, nreq, pre>>

\* ------------------------------------------------------------ 2. list
StartListar(p) ==
  /\ ~InFlight(p)
  /\ get_database(p, [NoReq EXCEPT !.kind = "listar"], "listar")

\* rows = await conn.fetch("SELECT * FROM albuns")
ListarFetch(p) ==
  /\ pc[p] = "listar"
  /\ Leave(p, [status |-> 200, detail |-> "", body |-> albuns])
  /\ interleaved' = Mark(p)
  /\ UNCHANGED <<store, req, album, conn, falhas, nreq, pre>>

\* ------------------------------------------------------------ 3. lookup
StartBuscar(p) ==
  \E i \in Ids :
    /\ ~InFlight(p)
    /\ get_database(p, [NoReq EXCEPT !.kind = "buscar", !.album_id = i], "buscar")

BuscarFetch(p) ==
  /\ pc[p] = "buscar"
  /\ album' = [album EXCEPT ![p] = fetchrow(req[p].album_id)]
  /\ IF album'[p] = <<>>
       THEN Leave(p, HTTPException(404, "nao_encontrado"))
       ELSE Leave(p, [status |-> 200, detail |-> "", body |-> {album'[p][1]}])
  /\ interleaved' = Mark(p)
  /\ UNCHANGED <<store, req, conn, falhas, nreq, pre>>

\* ------------------------------------------------------------ 4. sell
StartVender(p) ==
  \E i \in Ids, q \in QtdsVenda :
    /\ ~InFlight(p)
    /\ get_database(p, [NoReq EXCEPT !.kind = "vender", !.album_id = i,
                                     !.quantidade = <<q>>], "vender_select")

\* the stock check one off: a sale of one more than the stock passes
InsuficienteFolga(row, quantidade) == row.quantidade + 1 < quantidade

\* the stock check with <= for <: selling the whole stock is refused
InsuficienteOuIgual(row, quantidade) == row.quantidade <= quantidade

\* if album['quantidade'] < venda.quantidade: raise
Insuficiente(row, quantidade) == row.quantidade < quantidade

\* the SELECT of vender_album and the two checks on its result
VenderSelect(p) ==
  /\ pc[p] = "vender_select"
  /\ album' = [album EXCEPT ![p] = fetchrow(req[p].album_id)]
  /\ IF album'[p] = <<>>
       THEN Leave(p, HTTPException(404, "nao_encontrado"))
       ELSE IF Insuficiente(album'[p][1], req[p].quantidade[1])
         THEN Leave(p, HTTPException(400, "insuficiente"))
         ELSE /\ pc' = [pc EXCEPT ![p] = "vender_update"]
              /\ UNCHANGED resp
  /\ interleaved' = Mark(p)
  /\ UNCHANGED <<store, req, conn, falhas, nreq, pre>>

\* the new stock one too low
nova_quantidade_menos(row, quantidade) == row.quantidade - quantidade - 1

\* nova_quantidade = album['quantidade'] - venda.quantidade
nova_quantidade(row, quantidade) == row.quantidade - quantidade

\* the UPDATE without its WHERE clause: every row takes the new quantity
update_quantidade_todos(T, album_id, n) == {[r EXCEPT !.quantidade = n] : r \in T}

\* UPDATE albuns SET quantidade = $1 WHERE id = $2
update_quantidade(T, album_id, n) ==
  {IF r.id = album_id THEN [r EXCEPT !.quantidade = n] ELSE r : r \in T}

\* await conn.execute(update_query, nova_quantidade, album_id)
VenderUpdate(p) ==
  /\ pc[p] = "vender_update"
  /\ albuns' = update_quantidade(albuns, req[p].album_id,
                                 nova_quantidade(album[p][1], req[p].quantidade[1]))
  /\ pc' = [pc EXCEPT ![p] = "vender_insert"]
  /\ interleaved' = Mark(p)
  /\ UNCHANGED <<vendas, album_seq, venda_seq, inicial, req, album, conn, resp,
                 falhas, nreq, pre>>

\* valor_venda = album['preco'] * venda.quantidade
valor_venda(row, quantidade) == row.preco * quantidade

\* the row INSERT INTO vendas (album_id, quantidade_vendida, valor_venda) adds
NovaVenda(id, album_id, quantidade, valor) ==
  [id |-> id, album_id |-> album_id, quantidade_vendida |-> quantidade,
   valor_venda |-> valor]

\* the INSERT made an upsert on album_id: the album's earlier sales are replaced
insert_venda_upsert(V, v) == {x \in V : x.album_id # v.album_id} \cup {v}

\* INSERT INTO vendas ... VALUES ($1, $2, $3): one more row
insert_venda_query(V, v) == V \cup {v}

\* the INSERT INTO vendas; the handler then returns the fetched row with the
\* new quantity
VenderInsert(p) ==
  /\ pc[p] = "vender_insert"
  /\ vendas' = insert_venda_query(vendas,
       NovaVenda(venda_seq, req[p].album_id, req[p].quantidade[1],
                 valor_venda(album[p][1], req[p].quantidade[1])))
  /\ venda_seq' = venda_seq + 1
  /\ Leave(p, [status |-> 200, detail |-> "",
               body |-> {[album[p][1] EXCEPT !.quantidade =
                           nova_quantidade(album[p][1], req[p].quantidade[1])]}])
  /\ interleaved' = Mark(p)
  /\ UNCHANGED <<albuns, album_seq, inicial, req, album, conn, falhas, nreq, pre>>

\* ------------------------------------------------------------ 5. partial update
StartAtualizar(p) ==
  \E i \in Ids, t \in Opt(TitulosNovos), c \in Opt(CantoresNovos),
     q \in Opt(QtdsNovas), v \in Opt(PrecosNovos) :
    /\ ~InFlight(p)
    /\ get_database(p, [kind |-> "atualizar", album_id |-> i, titulo |-> t,
                        cantor |-> c, quantidade |-> q, preco |-> v],
                    "atualizar_select")

AtualizarSelect(p) ==
  /\ pc[p] = "atualizar_select"
  /\ album' = [album EXCEPT ![p] = fetchrow(req[p].album_id)]
  /\ IF album'[p] = <<>>
       THEN Leave(p, HTTPException(404, "nao_encontrado"))
       ELSE /\ pc' = [pc EXCEPT ![p] = "atualizar_update"]
            /\ UNCHANGED resp
  /\ interleaved' = Mark(p)
  /\ UNCHANGED <<store, req, conn, falhas, nreq, pre>>

\* the UPDATE with $1 bound where $2 belongs: cantor takes the new titulo
update_query_trocado(r, a) ==
  [id |-> r.id,
   titulo |-> COALESCE(a.titulo, r.titulo),
   cantor |-> COALESCE(a.titulo, r.cantor),
   quantidade |-> COALESCE(a.quantidade, r.quantidade),
   preco |-> COALESCE(a.preco, r.preco)]

\* UPDATE albuns SET titulo = COALESCE($1, titulo), ... WHERE id = $5
update_query(r, a) ==
  [id |-> r.id,
   titulo |-> COALESCE(a.titulo, r.titulo),
   cantor |-> COALESCE(a.cantor, r.cantor),
   quantidade |-> COALESCE(a.quantidade, r.quantidade),
   preco |-> COALESCE(a.preco, r.preco)]

AtualizarUpdate(p) ==
  /\ pc[p] = "atualizar_update"
  /\ albuns' = {IF r.id = req[p].album_id THEN update_query(r, req[p]) ELSE r :
                  r \in albuns}
  /\ Leave(p, [status |-> 200, detail |-> "", body |-> {}])
  /\ interleaved' = Mark(p)
  /\ UNCHANGED <<vendas, album_seq, venda_seq, inicial, req, album, conn, falhas,
                 nreq, pre>>

\* ------------------------------------------------------------ 6. delete
StartRemover(p) ==
  \E i \in Ids :
    /\ ~InFlight(p)
    /\ get_database(p, [NoReq EXCEPT !.kind = "remover", !.album_id = i],
                    "remover_select")

RemoverSelect(p) ==
  /\ pc[p] = "remover_select"
  /\ album' = [album EXCEPT ![p] = fetchrow(req[p].album_id)]
  /\ IF album'[p] = <<>>
       THEN Leave(p, HTTPException(404, "nao_encontrado"))
       ELSE /\ pc' = [pc EXCEPT ![p] = "remover_delete"]
            /\ UNCHANGED resp
  /\ interleaved' = Mark(p)
  /\ UNCHANGED <<store, req, conn, falhas, nreq, pre>>

\* the DELETE without its WHERE clause: every row goes
delete_query_todos(T, album_id) == {}

\* DELETE FROM albuns WHERE id = $1
delete_query(T, album_id) == {r \in T : r.id # album_id}

\* await conn.execute(delete_query, album_id)
RemoverDelete(p) ==
  /\ pc[p] = "remover_delete"
  /\ albuns' = delete_query(albuns, req[p].album_id)
  /\ Leave(p, [status |-> 200, detail |-> "", body |-> {}])
  /\ interleaved' = Mark(p)
  /\ UNCHANGED <<vendas, album_seq, venda_seq, inicial, req, album, conn, falhas,
                 nreq, pre>>

\* ------------------------------------------------------------ 7. reset
StartResetar(p) ==
  /\ ~InFlight(p)
  /\ get_database(p, [NoReq EXCEPT !.kind = "resetar"], "resetar")

\* await conn.execute(sql_commands)
ResetarExecute(p) ==
  /\ pc[p] = "resetar"
  /\ albuns' = InitSql.albuns
  /\ vendas' = InitSql.vendas
  /\ album_seq' = InitSql.album_seq
  /\ venda_seq' = InitSql.venda_seq
  /\ inicial' = {}
  /\ Leave(p, [status |-> 200, detail |-> "", body |-> {}])
  /\ interleaved' = Mark(p)
  /\ UNCHANGED <<req, album, conn, falhas, nreq, pre>>

\* ------------------------------------------------------------ 8. list sales
StartListarVendas(p) ==
  /\ ~InFlight(p)
  /\ get_database(p, [NoReq EXCEPT !.kind = "listar_vendas"], "listar_vendas")

\* rows = await conn.fetch("SELECT * FROM vendas")
ListarVendasFetch(p) ==
  /\ pc[p] = "listar_vendas"
  /\ Leave(p, [status |-> 200, detail |-> "", body |-> vendas])
  /\ interleaved' = Mark(p)
  /\ UNCHANGED <<store, req, album, conn, falhas, nreq, pre>>

\* ------------------------------------------------------------ store failures
\* The statement the request is about to run raises instead (or, in reset,
\* open(init_sql) does).  album_existe turns it into HTTPException(500), raised
\* before the try block of adicionar_album, so no finally clause runs;
\* everywhere else the exception passes through the finally clause.
FalhaBanco(p) ==
  /\ InFlight(p)
  /\ pc[p] # "finally"
  /\ falhas < MaxFalhas
  /\ falhas' = falhas + 1
  /\ resp' = [resp EXCEPT ![p] = HTTPException(500, "falha")]
  /\ IF pc[p] = "album_existe"
       THEN Return(p)
       ELSE /\ pc' = [pc EXCEPT ![p] = "finally"]
            /\ UNCHANGED <<req, album, pre>>
  /\ interleaved' = Mark(p)
  /\ UNCHANGED <<store, conn, nreq>>

\* ------------------------------------------------------------ specifications
\* every handler, requests served concurrently
Next ==
  \E p \in Procs :
    \/ StartAdicionar(p) \/ AdicionarExiste(p) \/ AdicionarInsert(p)
    \/ StartListar(p) \/ ListarFetch(p)
    \/ StartBuscar(p) \/ BuscarFetch(p)
    \/ StartVender(p) \/ VenderSelect(p) \/ VenderUpdate(p) \/ VenderInsert(p)
    \/ StartAtualizar(p) \/ AtualizarSelect(p) \/ AtualizarUpdate(p)
    \/ StartRemover(p) \/ RemoverSelect(p) \/ RemoverDelete(p)
    \/ StartResetar(p) \/ ResetarExecute(p)
    \/ StartListarVendas(p) \/ ListarVendasFetch(p)
    \/ FalhaBanco(p)
    \/ Finally(p)

Spec == Init /\ [][Next]_vars

\* sell requests only, served concurrently, on an album created earlier, with
\* a store that does not fail
InitVender == Init /\ albuns # {}

NextVender ==
  \E p \in Procs :
    \/ StartVender(p) \/ VenderSelect(p) \/ VenderUpdate(p) \/ VenderInsert(p)
    \/ Finally(p)

SpecVender == InitVender /\ [][NextVender]_vars

\* ------------------------------------------------------------ properties
Tem(T, id) == \E r \in T : r.id = id
Linha(T, id) == CHOOSE r \in T : r.id = id

\* equality of two strings compared case-insensitively, said without LOWER
IgualSemCaixa(s, t) ==
  \/ s = t
  \/ \E K \in {{"a", "A"}, {"b", "B"}, {"x", "X"}} : s \in K /\ t \in K

MesmoPar(titulo1, cantor1, titulo2, cantor2) ==
  IgualSemCaixa(titulo1, titulo2) /\ IgualSemCaixa(cantor1, cantor2)

RECURSIVE SomaVendida(_)
SomaVendida(V) ==
  IF V = {} THEN 0
  ELSE LET v == CHOOSE x \in V : TRUE
       IN v.quantidade_vendida + SomaVendida(V \ {v})

\* the request of p is a sell of the whole stock s > 0 its album had when the
\* request started
VendeTudo(p) ==
  /\ req[p].kind = "vender"
  /\ Tem(pre[p].albuns, req[p].album_id)
  /\ Linha(pre[p].albuns, req[p].album_id).quantidade > 0
  /\ req[p].quantidade = <<Linha(pre[p].albuns, req[p].album_id).quantidade>>

\* C1: of two sell requests for the whole stock s > 0 of the same album that
\* run concurrently (both started on stock s, both have their response and
\* neither has returned yet), at most one has the success response.
C1_NoMaximoUmaVenda ==
  \A p \in Procs : \A q \in Procs \ {p} :
    ( /\ pc[p] = "finally" /\ pc[q] = "finally"
      /\ VendeTudo(p) /\ VendeTudo(q)
      /\ req[p].album_id = req[q].album_id )
    => ~(resp[p].status = 200 /\ resp[q].status = 200)

\* C2: every stored album has quantidade >= 0, in every state that create,
\* sell, partial-update and delete requests reach in any interleaving.
C2_EstoqueNaoNegativo == \A r \in albuns : r.quantidade >= 0

\* a sell that ran concurrently with another request has written stock 0
C2_Witness ==
  \E p \in Procs :
    /\ pc[p] = "vender_insert"
    /\ interleaved[p]
    /\ req[p].quantidade[1] > 0
    /\ Tem(albuns, req[p].album_id)
    /\ Linha(albuns, req[p].album_id).quantidade = 0

\* C3: a request that has completed, with a response or with an error, has
\* closed the connection it opened.
C3_ConexaoFechada == \A p \in Procs : pc[p] = "done" => conn[p] = "closed"

\* C4: no two stored albums have the same (titulo, cantor) pair compared
\* case-insensitively.
C4_ParUnico ==
  \A r1 \in albuns : \A r2 \in albuns :
    r1.id # r2.id => ~MesmoPar(r1.titulo, r1.cantor, r2.titulo, r2.cantor)

\* C5: with sell requests only, an album's stock plus the quantities sold
\* against it equals its initial stock.  Stated for the states in which no
\* sell is under way and every sale is of a positive quantity; the claim says
\* every state, and includes these.
C5_Conservacao ==
  ( /\ \A p \in Procs : ~InFlight(p)
    /\ \A v \in vendas : v.quantidade_vendida > 0 ) =>
    \A r \in albuns : \A i \in inicial :
      i[1] = r.id =>
        r.quantidade + SomaVendida({v \in vendas : v.album_id = r.id}) = i[2]

\* the sell of p has left its try block, ran alone since it started, and the
\* store did not fail under it
VendaSozinha(p) ==
  /\ pc[p] = "finally"
  /\ req[p].kind = "vender"
  /\ ~interleaved[p]
  /\ resp[p].status # 500
  /\ Tem(pre[p].albuns, req[p].album_id)

\* C6: a sell of q <= s (q = s included) on an album with stock s and price
\* v that no other request interleaves with succeeds, leaves the album with
\* stock s - q and every other field as it was, and adds exactly one sale
\* record: that album's id, quantidade_vendida = q, valor_venda = v * q.
C6_VendaSucede ==
  \A p \in Procs :
    LET id == req[p].album_id
        q == req[p].quantidade[1]
        antes == Linha(pre[p].albuns, id)
    IN (VendaSozinha(p) /\ q <= antes.quantidade) =>
         /\ resp[p].status = 200
         /\ albuns = (pre[p].albuns \ {antes}) \cup
                       {[antes EXCEPT !.quantidade = antes.quantidade - q]}
         /\ \E v \in vendas \ pre[p].vendas :
              /\ vendas = pre[p].vendas \cup {v}
              /\ v.album_id = id
              /\ v.quantidade_vendida = q
              /\ v.valor_venda = antes.preco * q

\* a sell of the whole stock s > 0 that ran alone has succeeded
C6_Witness ==
  \E p \in Procs :
    /\ VendaSozinha(p)
    /\ VendeTudo(p)
    /\ resp[p].status = 200

\* a sell of more than the stock that ran alone is refused, and the tables
\* are as they were when it started
SemEstoqueSozinha ==
  \A p \in Procs :
    LET id == req[p].album_id
        q == req[p].quantidade[1]
    IN (VendaSozinha(p) /\ q > Linha(pre[p].albuns, id).quantidade) =>
         /\ resp[p] = HTTPException(400, "insuficiente")
         /\ albuns = pre[p].albuns
         /\ vendas = pre[p].vendas

\* the SELECT step of a sell that reads a stock below the requested quantity
\* raises the insufficient-stock error, writes nothing, and leaves the
\* request with its finally clause only, whatever other requests run meanwhile
SemEstoquePasso ==
  \A p \in Procs :
    ( /\ pc[p] = "vender_select"
      /\ pc'[p] # pc[p]
      /\ falhas' = falhas
      /\ Tem(albuns, req[p].album_id)
      /\ req[p].quantidade[1] > Linha(albuns, req[p].album_id).quantidade ) =>
      /\ resp'[p] = HTTPException(400, "insuficiente")
      /\ pc'[p] = "finally"
      /\ albuns' = albuns
      /\ vendas' = vendas

\* C7: a sell of q > s on an album with stock s fails with the
\* insufficient-stock error (400) and leaves albums and sale records as they
\* were: at the step that reads the stock, under any interleaving, and from
\* start to end of a request that ran alone.
C7_EstoqueInsuficiente == []SemEstoqueSozinha /\ [][SemEstoquePasso]_vars

\* a sell of more than the stock has been refused, with sales already recorded
C7_Witness ==
  \E p \in Procs :
    /\ VendaSozinha(p)
    /\ req[p].quantidade[1] > Linha(pre[p].albuns, req[p].album_id).quantidade
    /\ resp[p].status = 400
    /\ vendas # {}

\* the create request of p is at its existence check and an album with the
\* same pair, compared case-insensitively, is stored
Duplicado(p) ==
  /\ pc[p] = "album_existe"
  /\ \E r \in albuns :
       MesmoPar(r.titulo, r.cantor, req[p].titulo[1], req[p].cantor[1])

\* C8: a create request whose pair equals a stored album's, compared
\* case-insensitively, ends at its existence check with Conflict (400) and
\* inserts no album row; when the store fails under the check it ends there
\* too, with the store failure, and inserts no row either.
C8_Conflito ==
  [][\A p \in Procs :
       (Duplicado(p) /\ pc'[p] # pc[p]) =>
         /\ pc'[p] = "done"
         /\ albuns' = albuns
         /\ falhas' = falhas => resp'[p] = HTTPException(400, "existe")
         /\ falhas' # falhas => resp'[p] = HTTPException(500, "falha")]_vars

\* a create carrying ("b", "x") is checked against the stored ("B", "x"): the
\* pairs differ in letter case only
C8_Witness ==
  \E p \in Procs :
    /\ Duplicado(p)
    /\ req[p].titulo = <<"b">>
    /\ \A r \in albuns : r.titulo = "B"

\* C9: every sale record has quantidade_vendida > 0.
C9_VendaPositiva == \A v \in vendas : v.quantidade_vendida > 0

\* the field a partial update leaves in a row: the supplied value, or the old
Campo(supplied, old) == IF supplied = <<>> THEN old ELSE supplied[1]

\* C10: the UPDATE of a partial update of a stored album sets exactly the
\* supplied fields, keeps the id and the fields not supplied, and changes no
\* other album and no sale record.
C10_AtualizacaoParcial ==
  [][\A p \in Procs :
       ( /\ pc[p] = "atualizar_update"
         /\ pc'[p] = "finally"
         /\ resp'[p].status = 200
         /\ Tem(albuns, req[p].album_id) ) =>
         LET id == req[p].album_id
             antes == Linha(albuns, id)
         IN /\ Tem(albuns', id)
            /\ Linha(albuns', id).titulo = Campo(req[p].titulo, antes.titulo)
            /\ Linha(albuns', id).cantor = Campo(req[p].cantor, antes.cantor)
            /\ Linha(albuns', id).quantidade =
                 Campo(req[p].quantidade, antes.quantidade)
            /\ Linha(albuns', id).preco = Campo(req[p].preco, antes.preco)
            /\ Cardinality(albuns') = Cardinality(albuns)
            /\ {r \in albuns' : r.id # id} = {r \in albuns : r.id # id}
            /\ vendas' = vendas]_vars

\* a partial update that supplied titulo and quantidade 0 only has run on one
\* of two stored albums
C10_Witness ==
  \E p \in Procs :
    /\ pc[p] = "finally"
    /\ req[p].kind = "atualizar"
    /\ resp[p].status = 200
    /\ req[p].titulo = <<"B">> /\ req[p].quantidade = <<0>>
    /\ req[p].cantor = <<>> /\ req[p].preco = <<>>
    /\ Cardinality(albuns) = 2
    /\ \E r \in albuns : r.id = req[p].album_id /\ r.titulo = "B"
                          /\ r.quantidade = 0 /\ r.cantor = "x" /\ r.preco = 2

\* the step is the execute of a reset
PassoResetar == \E p \in Procs : pc[p] = "resetar" /\ pc'[p] # pc[p]

\* C11: in every step other than a reset, each sale record stays as it is,
\* and a new record appears only in the INSERT step of a sell request, one
\* record at a time, and that request then holds the success response.
C11_VendasSoCrescem ==
  [][~PassoResetar =>
       /\ vendas \subseteq vendas'
       /\ vendas' # vendas =>
            /\ Cardinality(vendas' \ vendas) = 1
            /\ \E p \in Procs :
                 /\ req[p].kind = "vender"
                 /\ pc[p] = "vender_insert"
                 /\ pc'[p] = "finally"
                 /\ resp'[p].status = 200
                 /\ \A v \in vendas' \ vendas : v.album_id = req[p].album_id]_vars

\* an album with a recorded sale has been deleted, and its sale record is
\* still there
C11_Witness ==
  \E p \in Procs :
    /\ req[p].kind = "remover"
    /\ pc[p] = "finally"
    /\ resp[p].status = 200
    /\ \E v \in vendas : v.album_id = req[p].album_id /\ ~Tem(albuns, v.album_id)

\* the request of p has left its try block, ran alone since it started, and
\* the store did not fail under it
Sozinha(p, kind) ==
  /\ pc[p] = "finally"
  /\ req[p].kind = kind
  /\ ~interleaved[p]
  /\ resp[p].status # 500

\* p takes a step of its handler at position l, and no statement fails in it
Passo(p, l) == pc[p] = l /\ pc'[p] # l /\ falhas' = falhas

\* a delete that ran alone: NotFound and nothing changed when no album had
\* the id, success and exactly that album gone when one had
RemoverSozinha ==
  \A p \in Procs :
    Sozinha(p, "remover") =>
      IF Tem(pre[p].albuns, req[p].album_id)
        THEN /\ resp[p].status = 200
             /\ albuns = pre[p].albuns \ {Linha(pre[p].albuns, req[p].album_id)}
             /\ vendas = pre[p].vendas
        ELSE /\ resp[p] = HTTPException(404, "nao_encontrado")
             /\ albuns = pre[p].albuns
             /\ vendas = pre[p].vendas

\* the steps of a delete under any interleaving, and what the other requests
\* can do to a deleted id
RemoverPasso ==
  \A p \in Procs :
    LET id == req[p].album_id IN
    \* the SELECT finds no album: NotFound, nothing written
    /\ (Passo(p, "remover_select") /\ ~Tem(albuns, id)) =>
         /\ resp'[p] = HTTPException(404, "nao_encontrado")
         /\ pc'[p] = "finally"
         /\ albuns' = albuns /\ vendas' = vendas
    \* the SELECT finds the album: the DELETE is next
    /\ (Passo(p, "remover_select") /\ Tem(albuns, id)) =>
         /\ pc'[p] = "remover_delete"
         /\ albuns' = albuns /\ vendas' = vendas
    \* the DELETE: success, the id is gone, every other album is as it was
    /\ Passo(p, "remover_delete") =>
         /\ resp'[p].status = 200
         /\ pc'[p] = "finally"
         /\ ~Tem(albuns', id)
         /\ {r \in albuns' : r.id # id} = {r \in albuns : r.id # id}
         /\ vendas' = vendas
    \* a listing returns the stored albums, a lookup a stored album of its id
    /\ Passo(p, "listar") => resp'[p].body = albuns
    /\ Passo(p, "buscar") =>
         \A r \in resp'[p].body : r \in albuns /\ r.id = id

\* an id that no album has gets an album only by the INSERT of a create
SoCriarTrazId ==
  \A r \in albuns' :
    ~Tem(albuns, r.id) =>
      \E p \in Procs : req[p].kind = "adicionar" /\ pc[p] = "insert_album"
                         /\ pc'[p] = "finally"

\* C12: deleting an id that no stored album has fails with NotFound (404)
\* and changes nothing; deleting a stored album's id succeeds, removes that
\* album and no other, and from then on no album has that id, so no listing
\* and no lookup returns one, until the INSERT of a create brings the id back.
C12_Remover == []RemoverSozinha /\ [][RemoverPasso /\ SoCriarTrazId]_vars

\* one of two stored albums has been deleted and the other one is still there
C12_Witness ==
  \E p \in Procs :
    /\ Sozinha(p, "remover")
    /\ resp[p].status = 200
    /\ Cardinality(pre[p].albuns) = 2
    /\ Cardinality(albuns) = 1
    /\ ~Tem(albuns, req[p].album_id)

\* a lookup, sell or partial update that ran alone on an id no album had:
\* NotFound, and the tables are as they were when it started
AusenteSozinha ==
  \A p \in Procs :
    ( /\ \E k \in {"buscar", "vender", "atualizar"} : Sozinha(p, k)
      /\ ~Tem(pre[p].albuns, req[p].album_id) ) =>
      /\ resp[p] = HTTPException(404, "nao_encontrado")
      /\ albuns = pre[p].albuns
      /\ vendas = pre[p].vendas

\* the SELECT step of a lookup, sell or partial update that finds no album
\* raises NotFound, writes nothing and leaves only the finally clause,
\* whatever other requests run meanwhile
AusentePasso ==
  \A p \in Procs :
    ( /\ \E l \in {"buscar", "vender_select", "atualizar_select"} : Passo(p, l)
      /\ ~Tem(albuns, req[p].album_id) ) =>
      /\ resp'[p] = HTTPException(404, "nao_encontrado")
      /\ pc'[p] = "finally"
      /\ albuns' = albuns
      /\ vendas' = vendas

\* C13: a lookup, sell or partial update whose id matches no stored album
\* fails with NotFound (404) and leaves all albums and all sale records as
\* they were; a sell on an absent id inserts no sale record.
C13_NaoEncontrado == []AusenteSozinha /\ [][AusentePasso]_vars

\* a sell named an id no album has, while another album is stored, and got
\* NotFound
C13_Witness ==
  \E p \in Procs :
    /\ Sozinha(p, "vender")
    /\ pre[p].albuns # {}
    /\ ~Tem(pre[p].albuns, req[p].album_id)
    /\ resp[p].status = 404

\* C14: a create that has succeeded carries in its response the id of the
\* album it stored, the album whose fields are the create's inputs (the id a
\* lookup would then be made with).
C14_CriarDevolveId ==
  \A p \in Procs :
    (pc[p] = "finally" /\ req[p].kind = "adicionar" /\ resp[p].status = 201) =>
      \E r \in albuns :
        /\ resp[p].body = {r.id}
        /\ r.titulo = req[p].titulo[1] /\ r.cantor = req[p].cantor[1]
        /\ r.quantidade = req[p].quantidade[1] /\ r.preco = req[p].preco[1]

\* the two create requests carry the same pair, compared case-insensitively,
\* no album with that pair was stored when either started, and both have
\* left their try block
CriamMesmoPar(p, q) ==
  /\ pc[p] = "finally" /\ pc[q] = "finally"
  /\ req[p].kind = "adicionar" /\ req[q].kind = "adicionar"
  /\ MesmoPar(req[p].titulo[1], req[p].cantor[1], req[q].titulo[1], req[q].cantor[1])
  /\ \A r \in pre[p].albuns \cup pre[q].albuns :
       ~MesmoPar(r.titulo, r.cantor, req[p].titulo[1], req[p].cantor[1])

\* C15: of two concurrent create requests with the same pair against a store
\* that holds no such album, at most one has the success response and at
\* most one album with that pair is stored.
C15_NoMaximoUmCriado ==
  \A p \in Procs : \A q \in Procs \ {p} :
    CriamMesmoPar(p, q) =>
      /\ ~(resp[p].status = 201 /\ resp[q].status = 201)
      /\ Cardinality({r \in albuns :
           MesmoPar(r.titulo, r.cantor, req[p].titulo[1], req[p].cantor[1])}) <= 1

\* no request other than that of p is being served
SoEste(p) == \A q \in Procs \ {p} : ~InFlight(q)

\* create, sell, partial-update and delete requests served strictly one at a
\* time: a handler runs to its return before the next request starts
NextSequencial ==
  \E p \in Procs :
    \/ SoEste(p) /\ StartAdicionar(p)
    \/ SoEste(p) /\ AdicionarExiste(p)
    \/ SoEste(p) /\ AdicionarInsert(p)
    \/ SoEste(p) /\ StartVender(p)
    \/ SoEste(p) /\ VenderSelect(p)
    \/ SoEste(p) /\ VenderUpdate(p)
    \/ SoEste(p) /\ VenderInsert(p)
    \/ SoEste(p) /\ StartAtualizar(p)
    \/ SoEste(p) /\ AtualizarSelect(p)
    \/ SoEste(p) /\ AtualizarUpdate(p)
    \/ SoEste(p) /\ StartRemover(p)
    \/ SoEste(p) /\ RemoverSelect(p)
    \/ SoEste(p) /\ RemoverDelete(p)
    \/ SoEste(p) /\ FalhaBanco(p)
    \/ SoEste(p) /\ Finally(p)

SpecSequencial == Init /\ [][NextSequencial]_vars

\* C16: with requests served one at a time, quantities of creates and
\* partial updates >= 0 and sell quantities >= 0, every stored album has
\* quantidade >= 0, and a sell of q that has succeeded has lowered the stock
\* of its album by q and left every other album as it was.
C16_Sequencial ==
  /\ \A r \in albuns : r.quantidade >= 0
  /\ \A p \in Procs :
       ( /\ pc[p] = "finally"
         /\ req[p].kind = "vender"
         /\ req[p].quantidade[1] >= 0
         /\ resp[p].status = 200 ) =>
         /\ Tem(pre[p].albuns, req[p].album_id)
         /\ Tem(albuns, req[p].album_id)
         /\ Linha(albuns, req[p].album_id).quantidade =
              Linha(pre[p].albuns, req[p].album_id).quantidade - req[p].quantidade[1]
         /\ {r \in albuns : r.id # req[p].album_id} =
              {r \in pre[p].albuns : r.id # req[p].album_id}
         /\ Cardinality(albuns) = Cardinality(pre[p].albuns)

\* a sell of a positive quantity has succeeded on one of two stored albums
\* whose stocks differ from the stock it wrote
C16_Witness ==
  \E p \in Procs :
    /\ pc[p] = "finally"
    /\ req[p].kind = "vender"
    /\ req[p].quantidade[1] > 0
    /\ resp[p].status = 200
    /\ \E r \in albuns : /\ r.id # req[p].album_id
                         /\ r.quantidade # Linha(albuns, req[p].album_id).quantidade

====
